---- MODULE Spec2Model ----
(***************************************************************************)
(* Model of src/fiap.py: console application that registers agricultural   *)
(* products and transport vehicles in a relational store, checks which     *)
(* vehicle is compatible with a product and exports single records to JSON.*)
(*                                                                         *)
(* One thread of control; pc is its position in the program.  Every call   *)
(* of input() is one step whose value is drawn from a small set of typed   *)
(* lines; every store operation is one step that may fail with             *)
(* oracledb.DatabaseError.  Lines typed at numeric prompts are sequences   *)
(* of characters so that int(), float() and str.isdigit() are computed.    *)
(***************************************************************************)
EXTENDS Integers, Sequences, FiniteSets, TLC

\* ---------------------------------------------------------------- bounds
\* Registrations offered by the menu stop once a table holds this many rows.
MaxProdutos == 1
MaxVeiculos == 2

\* ------------------------------------------------------- lines typed in
NomeInputs == {"", "soja"}
OrigemInputs == {"", "SP"}
DestinoInputs == {"", "RJ"}
QuantidadeInputs == {<<"x">>, <<"0">>, <<"-", "1">>, <<"2">>}
TemperaturaMinimaInputs == {<<"x">>, <<"1">>}
TemperaturaMaximaInputs == {<<>>, <<"2">>}
SimNaoInputs == {"sim", "SIM", "nao", "talvez"}
CapacidadeInputs == {<<"x">>, <<"0">>, <<"2">>}
TemperaturaInputs == {<<"x">>, <<"0">>, <<"1">>, <<"2">>}
VeiculoVentilacaoInputs == {"sim", "s"}
VeiculoProtecaoInputs == {"NAO", ""}
IdInputs == {<<>>, <<"x">>, <<"-", "1">>, <<"1">>, <<"2">>, <<"3">>, <<"4">>}
OpcaoSeisInputs == {<<"x">>, <<"1">>, <<"2">>, <<"3">>}
MenuInputs ==
  {<<"x">>, <<"0">>, <<"1">>, <<"2">>, <<"3">>, <<"4">>, <<"5">>, <<"6">>, <<"7">>, <<"8">>}

\* ------------------------------------------------------ Python built-ins
Digitos == {"0", "1", "2", "3", "4", "5", "6", "7", "8", "9"}

DigitoValor(c) ==
  CASE c = "0" -> 0 [] c = "1" -> 1 [] c = "2" -> 2 [] c = "3" -> 3 [] c = "4" -> 4
    [] c = "5" -> 5 [] c = "6" -> 6 [] c = "7" -> 7 [] c = "8" -> 8 [] c = "9" -> 9

\* str.isdigit(): non-empty and every character a digit.
isdigit(s) == Len(s) > 0 /\ \A i \in 1..Len(s) : s[i] \in Digitos

RECURSIVE ValorDecimal(_)
ValorDecimal(s) ==
  IF s = <<>> THEN 0
  ELSE 10 * ValorDecimal(SubSeq(s, 1, Len(s) - 1)) + DigitoValor(s[Len(s)])

\* int(s) raises ValueError unless s is an optional sign followed by digits.
int_ok(s) ==
  \/ isdigit(s)
  \/ Len(s) > 1 /\ s[1] \in {"-", "+"} /\ isdigit(Tail(s))

int(s) ==
  IF isdigit(s) THEN ValorDecimal(s)
  ELSE IF s[1] = "-" THEN 0 - ValorDecimal(Tail(s))
  ELSE ValorDecimal(Tail(s))

\* float(s) on the lines typed here (no fraction, no exponent): as int(s).
float_ok(s) == int_ok(s)

float(s) == int(s)

\* str.lower() on the answers typed at the yes/no prompts.
lower(s) ==
  CASE s = "SIM" -> "sim"
    [] s = "NAO" -> "nao"
    [] s = "NÃO" -> "não"
    [] OTHER -> s

\* The value None and a list, as values a Python name can be bound to.
None == [tipo |-> "None", itens |-> <<>>]

Lista(itens) == [tipo |-> "list", itens |-> itens]

\* Truth value of a list or None (`not produtos`, `if produtos:`).
Verdadeiro(v) == v.tipo = "list" /\ Len(v.itens) > 0

\* ------------------------------------------------------------ validation
\* valor_nulo: True (invalid) when the field is the empty string.
valor_nulo(campo) == campo = ""

\* validar_positivo with the comparison off by one: zero passes.
validar_positivo_sem_zero(numero) == numero < 0

\* validar_positivo: True (invalid) when the number is not positive.
validar_positivo(numero) == numero <= 0

\* perguntar_sim_nao: the answer is accepted when its lower-case form is one
\* of the three words, and the result is whether it is 'sim'.
RespostaAceita(resposta) == lower(resposta) \in {"sim", "não", "nao"}

perguntar_sim_nao(resposta) == lower(resposta) = "sim"

SimOuNao(b) == IF b THEN "SIM" ELSE "NAO"

\* ----------------------------------------------------------------- store
\* Columns of a row of transporte_agricola_produtos, in the order SELECT *
\* returns them (the order the frames and the export index them by).
ColunasProduto ==
  <<"id_produto", "produto", "quantidade", "origem", "destino",
    "temperatura_minima", "temperatura_maxima", "ventilacao", "protecao_solar">>

ColunasVeiculo ==
  <<"id_veiculo", "capacidade", "temperatura", "ventilacao", "protecao_solar">>

\* Position of a column name in a column list.
Coluna(colunas, nome) == CHOOSE i \in 1..Len(colunas) : colunas[i] = nome

\* The row the INSERT of dados_produtos adds; the store assigns the id.
LinhaProduto(id, d) ==
  <<id, d.produto, d.quantidade, d.origem, d.destino, d.temperatura_minima,
    d.temperatura_maxima, d.ventilacao, d.protecao_solar>>

LinhaVeiculo(id, d) ==
  <<id, d.capacidade, d.temperatura, d.ventilacao, d.protecao_solar>>

\* fetchall() after SELECT * with no ORDER BY: the rows of the table in any
\* order the store chooses, always a list (never None).
fetchall(tabela) ==
  {Lista([i \in 1..Len(tabela) |-> tabela[f[i]]]) : f \in Permutations(1..Len(tabela))}

\* DataFrame.from_records(..., index=<id column>): the index labels.
Indice(linhas) == {linhas[i][1] : i \in 1..Len(linhas)}

\* DataFrame.loc[id, coluna] on a frame built from `linhas`.
loc(linhas, colunas, id, nome) ==
  LET i == CHOOSE j \in 1..Len(linhas) : linhas[j][1] = id
  IN linhas[i][Coluna(colunas, nome)]

\* iterrows walking the frame from its last row to its first.
iterrows_invertido(linhas) == [i \in 1..Len(linhas) |-> linhas[Len(linhas) + 1 - i]]

\* DataFrame.iterrows(): the rows in frame order.
iterrows(linhas) == linhas

VARIABLES
  pc,                  \* position of the single thread of control
  conn,                \* "nenhuma" | "aberta" | "fechada"
  causa,               \* how the process ended ("" while it runs)
  escolha,             \* opcao_escolhida's current choice
  tabela_produtos,     \* rows of transporte_agricola_produtos
  tabela_veiculos,     \* rows of transporte_agricola_veiculos
  saida,               \* last message printed since the screen was cleared
  produto, origem, destino, quantidade,
  temperatura_minima, temperatura_maxima,
  capacidade, temperatura_transporte,
  ventilacao, protecao_solar,
  veiculos,            \* comparar_veiculo / salvar_veiculo_json: fetched vehicles
  produtos,            \* listar_produtos() result held by the caller
  id_produto,          \* line typed at an identifier prompt
  iter,                \* number of vehicles the matching loop has examined
  idx,                 \* id of the vehicle reported, 0 when none
  retorno,             \* value comparar_veiculo returned: "", "None", "True", "False"
  arquivo,             \* name of the file opened for writing, "" when none
  json_file            \* what json.dump wrote to it

formulario == <<produto, origem, destino, quantidade, temperatura_minima,
                temperatura_maxima, capacidade, temperatura_transporte,
                ventilacao, protecao_solar>>

consulta == <<veiculos, produtos, id_produto, iter, idx, retorno>>

exportacao == <<arquivo, json_file>>

tabelas == <<tabela_produtos, tabela_veiculos>>

vars == <<pc, conn, causa, escolha, tabelas, saida, formulario, consulta, exportacao>>

LocaisIniciais ==
  /\ produto = "" /\ origem = "" /\ destino = "" /\ quantidade = 0
  /\ temperatura_minima = 0 /\ temperatura_maxima = 0
  /\ capacidade = 0 /\ temperatura_transporte = 0
  /\ ventilacao = FALSE /\ protecao_solar = FALSE
  /\ veiculos = None /\ produtos = None /\ id_produto = <<>>
  /\ iter = 0 /\ idx = 0 /\ retorno = ""
  /\ arquivo = "" /\ json_file = <<>>

\* The locals of a function that returned are gone.
LimparLocais ==
  /\ produto' = "" /\ origem' = "" /\ destino' = "" /\ quantidade' = 0
  /\ temperatura_minima' = 0 /\ temperatura_maxima' = 0
  /\ capacidade' = 0 /\ temperatura_transporte' = 0
  /\ ventilacao' = FALSE /\ protecao_solar' = FALSE
  /\ veiculos' = None /\ produtos' = None /\ id_produto' = <<>>
  /\ iter' = 0 /\ idx' = 0 /\ retorno' = ""
  /\ arquivo' = "" /\ json_file' = <<>>

Init ==
  /\ pc = "inicio"
  /\ conn = "nenhuma"
  /\ causa = ""
  /\ escolha = 0
  /\ tabela_produtos = <<>>
  /\ tabela_veiculos = <<>>
  /\ saida = ""
  /\ LocaisIniciais

\* An exception nobody catches unwinds every frame and ends the process
\* with a traceback; the connection is left as it is.
Excecao(nome) ==
  /\ pc' = "fim"
  /\ causa' = nome
  /\ LimparLocais
  /\ UNCHANGED <<conn, escolha, tabelas, saida>>

\* ------------------------------------------------------------------ main
\* __main__: conectar_banco_oracle() returns a connection or, after a
\* DatabaseError, None; without a connection the program prints and ends.
Conectar ==
  /\ pc = "inicio"
  /\ \E falha \in BOOLEAN :
       IF falha
         THEN /\ pc' = "fim"
              /\ causa' = "sem_conexao"
              /\ saida' = "nao_foi_possivel_conectar"
              /\ conn' = conn
         ELSE /\ pc' = "menu"
              /\ conn' = "aberta"
              /\ UNCHANGED <<causa, saida>>
  /\ UNCHANGED <<escolha, tabelas, formulario, consulta, exportacao>>

\* First position of the action the dispatcher runs for a choice.
Despacho(e) ==
  CASE e = 1 -> "p_produto"
    [] e = 2 -> "v_capacidade"
    [] e = 3 -> "listar_produtos"
    [] e = 4 -> "listar_veiculos"
    [] e = 5 -> "c_veiculos"
    [] e = 6 -> "opcao_seis"
    [] e = 7 -> "sair"

\* menu(): a line that is no integer, or an integer outside 1..7, clears the
\* screen, prints and asks again; otherwise the dispatcher runs the choice.
Menu ==
  /\ pc = "menu"
  /\ \E linha \in MenuInputs :
       IF int_ok(linha) /\ int(linha) \in 1..7
         THEN /\ int(linha) = 1 => Len(tabela_produtos) < MaxProdutos
              /\ int(linha) = 2 => Len(tabela_veiculos) < MaxVeiculos
              /\ escolha' = int(linha)
              /\ pc' = Despacho(int(linha))
              /\ saida' = ""
         ELSE /\ saida' = "escolha_invalida"
              /\ UNCHANGED <<pc, escolha>>
  /\ UNCHANGED <<conn, causa, tabelas, formulario, consulta, exportacao>>

\* input("Pressione ENTER"), clear the screen, back to menu().
PressioneEnter ==
  /\ pc = "enter"
  /\ pc' = "menu"
  /\ saida' = ""
  /\ LimparLocais
  /\ UNCHANGED <<conn, causa, escolha, tabelas>>

\* sair(): close the connection if there is one, then exit(0).
Sair ==
  /\ pc = "sair"
  /\ saida' = "saindo"
  /\ conn' = IF conn # "nenhuma" THEN "fechada" ELSE conn
  /\ pc' = "fim"
  /\ causa' = "exit"
  /\ UNCHANGED <<escolha, tabelas, formulario, consulta, exportacao>>

\* ------------------------------------------- dados_coletados_produtos
\* The product form's locals; the vehicle form's are left alone.
ProdutoLocais(p, o, d, q, tmin, tmax) ==
  /\ produto' = p /\ origem' = o /\ destino' = d /\ quantidade' = q
  /\ temperatura_minima' = tmin /\ temperatura_maxima' = tmax
  /\ UNCHANGED <<capacidade, temperatura_transporte>>

\* `continue`, or the except ValueError branch: the while loop starts over
\* at the first prompt (what was typed so far is overwritten before use).
ReiniciarProduto(mensagem) ==
  /\ pc' = "p_produto"
  /\ saida' = mensagem
  /\ ProdutoLocais("", "", "", 0, 0, 0)
  /\ ventilacao' = FALSE /\ protecao_solar' = FALSE

P_Produto ==
  /\ pc = "p_produto"
  /\ \E linha \in NomeInputs :
       IF valor_nulo(linha)
         THEN ReiniciarProduto("campo_vazio")
         ELSE /\ pc' = "p_origem"
              /\ ProdutoLocais(linha, origem, destino, quantidade,
                               temperatura_minima, temperatura_maxima)
              /\ UNCHANGED <<saida, ventilacao, protecao_solar>>
  /\ UNCHANGED <<conn, causa, escolha, tabelas, consulta, exportacao>>

P_Origem ==
  /\ pc = "p_origem"
  /\ \E linha \in OrigemInputs :
       IF valor_nulo(linha)
         THEN ReiniciarProduto("campo_vazio")
         ELSE /\ pc' = "p_destino"
              /\ ProdutoLocais(produto, linha, destino, quantidade,
                               temperatura_minima, temperatura_maxima)
              /\ UNCHANGED <<saida, ventilacao, protecao_solar>>
  /\ UNCHANGED <<conn, causa, escolha, tabelas, consulta, exportacao>>

P_Destino ==
  /\ pc = "p_destino"
  /\ \E linha \in DestinoInputs :
       IF valor_nulo(linha)
         THEN ReiniciarProduto("campo_vazio")
         ELSE /\ pc' = "p_quantidade"
              /\ ProdutoLocais(produto, origem, linha, quantidade,
                               temperatura_minima, temperatura_maxima)
              /\ UNCHANGED <<saida, ventilacao, protecao_solar>>
  /\ UNCHANGED <<conn, causa, escolha, tabelas, consulta, exportacao>>

\* int(input(...)) raises ValueError on a line that is no integer;
\* validar_positivo rejects an integer that is not positive.
P_Quantidade ==
  /\ pc = "p_quantidade"
  /\ \E linha \in QuantidadeInputs :
       IF ~int_ok(linha) \/ validar_positivo(int(linha))
         THEN ReiniciarProduto("digite_numero_valido")
         ELSE /\ pc' = "p_temperatura_minima"
              /\ ProdutoLocais(produto, origem, destino, int(linha),
                               temperatura_minima, temperatura_maxima)
              /\ UNCHANGED <<saida, ventilacao, protecao_solar>>
  /\ UNCHANGED <<conn, causa, escolha, tabelas, consulta, exportacao>>

P_TemperaturaMinima ==
  /\ pc = "p_temperatura_minima"
  /\ \E linha \in TemperaturaMinimaInputs :
       IF ~float_ok(linha)
         THEN ReiniciarProduto("digite_numero_valido")
         ELSE /\ pc' = "p_temperatura_maxima"
              /\ ProdutoLocais(produto, origem, destino, quantidade,
                               float(linha), temperatura_maxima)
              /\ UNCHANGED <<saida, ventilacao, protecao_solar>>
  /\ UNCHANGED <<conn, causa, escolha, tabelas, consulta, exportacao>>

P_TemperaturaMaxima ==
  /\ pc = "p_temperatura_maxima"
  /\ \E linha \in TemperaturaMaximaInputs :
       IF ~float_ok(linha)
         THEN ReiniciarProduto("digite_numero_valido")
         ELSE /\ pc' = "p_ventilacao"
              /\ ProdutoLocais(produto, origem, destino, quantidade,
                               temperatura_minima, float(linha))
              /\ UNCHANGED <<saida, ventilacao, protecao_solar>>
  /\ UNCHANGED <<conn, causa, escolha, tabelas, consulta, exportacao>>

\* perguntar_sim_nao asks again, inside its own loop, until the answer is
\* one of the accepted words.
P_Ventilacao ==
  /\ pc = "p_ventilacao"
  /\ \E resposta \in SimNaoInputs :
       IF RespostaAceita(resposta)
         THEN /\ pc' = "p_protecao_solar"
              /\ ventilacao' = perguntar_sim_nao(resposta)
              /\ UNCHANGED saida
         ELSE /\ saida' = "responda_sim_ou_nao"
              /\ UNCHANGED <<pc, ventilacao>>
  /\ UNCHANGED <<conn, causa, escolha, tabelas, consulta, exportacao, produto, origem,
                 destino, quantidade, temperatura_minima, temperatura_maxima,
                 capacidade, temperatura_transporte, protecao_solar>>

P_ProtecaoSolar ==
  /\ pc = "p_protecao_solar"
  /\ \E resposta \in SimNaoInputs :
       IF RespostaAceita(resposta)
         THEN /\ pc' = "p_insert"
              /\ protecao_solar' = perguntar_sim_nao(resposta)
              /\ UNCHANGED saida
         ELSE /\ saida' = "responda_sim_ou_nao"
              /\ UNCHANGED <<pc, protecao_solar>>
  /\ UNCHANGED <<conn, causa, escolha, tabelas, consulta, exportacao, produto, origem,
                 destino, quantidade, temperatura_minima, temperatura_maxima,
                 capacidade, temperatura_transporte, ventilacao>>

\* The dictionary bound to the INSERT's parameters.
dados_produtos ==
  [produto |-> produto, quantidade |-> quantidade, origem |-> origem,
   destino |-> destino, temperatura_minima |-> temperatura_minima,
   temperatura_maxima |-> temperatura_maxima,
   ventilacao |-> SimOuNao(ventilacao), protecao_solar |-> SimOuNao(protecao_solar)]

\* INSERT and commit; a DatabaseError is caught and printed, and the
\* function returns to the dispatcher either way.
P_Insert ==
  /\ pc = "p_insert"
  /\ \E falha \in BOOLEAN :
       IF falha
         THEN /\ saida' = "erro_ao_inserir"
              /\ UNCHANGED tabela_produtos
         ELSE /\ saida' = "gravados"
              /\ tabela_produtos' =
                   Append(tabela_produtos,
                          LinhaProduto(Len(tabela_produtos) + 1, dados_produtos))
  /\ pc' = "enter"
  /\ UNCHANGED <<conn, causa, escolha, tabela_veiculos, formulario, consulta, exportacao>>

\* ----------------------------------------- dados_coletados_transporte
VeiculoLocais(c, t) ==
  /\ capacidade' = c /\ temperatura_transporte' = t
  /\ UNCHANGED <<produto, origem, destino, quantidade, temperatura_minima,
                 temperatura_maxima>>

\* except ValueError: print and start the while loop over.
ReiniciarVeiculo ==
  /\ pc' = "v_capacidade"
  /\ saida' = "digite_valor_valido"
  /\ VeiculoLocais(0, 0)
  /\ UNCHANGED <<ventilacao, protecao_solar>>

V_Capacidade ==
  /\ pc = "v_capacidade"
  /\ \E linha \in CapacidadeInputs :
       IF ~int_ok(linha)
         THEN ReiniciarVeiculo
         ELSE /\ pc' = "v_temperatura"
              /\ VeiculoLocais(int(linha), temperatura_transporte)
              /\ UNCHANGED <<saida, ventilacao, protecao_solar>>
  /\ UNCHANGED <<conn, causa, escolha, tabelas, consulta, exportacao>>

V_Temperatura ==
  /\ pc = "v_temperatura"
  /\ \E linha \in TemperaturaInputs :
       IF ~float_ok(linha)
         THEN ReiniciarVeiculo
         ELSE /\ pc' = "v_ventilacao"
              /\ VeiculoLocais(capacidade, float(linha))
              /\ UNCHANGED <<saida, ventilacao, protecao_solar>>
  /\ UNCHANGED <<conn, causa, escolha, tabelas, consulta, exportacao>>

V_Ventilacao ==
  /\ pc = "v_ventilacao"
  /\ \E resposta \in VeiculoVentilacaoInputs :
       IF RespostaAceita(resposta)
         THEN /\ pc' = "v_protecao_solar"
              /\ ventilacao' = perguntar_sim_nao(resposta)
              /\ UNCHANGED saida
         ELSE /\ saida' = "responda_sim_ou_nao"
              /\ UNCHANGED <<pc, ventilacao>>
  /\ UNCHANGED <<conn, causa, escolha, tabelas, consulta, exportacao, produto, origem,
                 destino, quantidade, temperatura_minima, temperatura_maxima,
                 capacidade, temperatura_transporte, protecao_solar>>

V_ProtecaoSolar ==
  /\ pc = "v_protecao_solar"
  /\ \E resposta \in VeiculoProtecaoInputs :
       IF RespostaAceita(resposta)
         THEN /\ pc' = "v_insert"
              /\ protecao_solar' = perguntar_sim_nao(resposta)
              /\ UNCHANGED saida
         ELSE /\ saida' = "responda_sim_ou_nao"
              /\ UNCHANGED <<pc, protecao_solar>>
  /\ UNCHANGED <<conn, causa, escolha, tabelas, consulta, exportacao, produto, origem,
                 destino, quantidade, temperatura_minima, temperatura_maxima,
                 capacidade, temperatura_transporte, ventilacao>>

dados_transporte ==
  [capacidade |-> capacidade, temperatura |-> temperatura_transporte,
   ventilacao |-> SimOuNao(ventilacao), protecao_solar |-> SimOuNao(protecao_solar)]

V_Insert ==
  /\ pc = "v_insert"
  /\ \E falha \in BOOLEAN :
       IF falha
         THEN /\ saida' = "erro_ao_inserir"
              /\ UNCHANGED tabela_veiculos
         ELSE /\ saida' = "gravados"
              /\ tabela_veiculos' =
                   Append(tabela_veiculos,
                          LinhaVeiculo(Len(tabela_veiculos) + 1, dados_transporte))
  /\ pc' = "enter"
  /\ UNCHANGED <<conn, causa, escolha, tabela_produtos, formulario, consulta, exportacao>>

\* --------------------------------------------------------- listings
EhNone(v) == v.tipo = "None"

\* consultar_produtos / consultar_veiculos execute the SELECT with no try
\* around it, and no caller up to the interpreter has one: every action that
\* fetches either fetches or ends the process on the store's error.
\* listar_produtos(): the fetched list, or None when it is empty.
listar_produtos(lista) == IF ~Verdadeiro(lista) THEN None ELSE lista

\* listar_veiculos(): the frame of the fetched rows, or None when empty.
listar_veiculos(lista) == IF ~Verdadeiro(lista) THEN None ELSE lista

\* Menu option 3.
ListarProdutos ==
  /\ pc = "listar_produtos"
  /\ \/ Excecao("DatabaseError")
     \/ /\ \E lista \in fetchall(tabela_produtos) :
               saida' = IF EhNone(listar_produtos(lista))
                          THEN "nao_ha_produtos" ELSE "produtos_listados"
        /\ pc' = "enter"
        /\ UNCHANGED <<conn, causa, escolha, tabelas, formulario, consulta, exportacao>>

\* Menu option 4.
ListarVeiculos ==
  /\ pc = "listar_veiculos"
  /\ \/ Excecao("DatabaseError")
     \/ /\ \E lista \in fetchall(tabela_veiculos) :
               saida' = IF EhNone(listar_veiculos(lista))
                          THEN "nao_ha_veiculos" ELSE "veiculos_listados"
        /\ pc' = "enter"
        /\ UNCHANGED <<conn, causa, escolha, tabelas, formulario, consulta, exportacao>>

\* ------------------------------------------------------ comparar_veiculo
capacidade_ok(produto_quantidade, veiculo) ==
  produto_quantidade <= veiculo[Coluna(ColunasVeiculo, "capacidade")]

\* temperatura_ok with the upper bound exclusive.
temperatura_ok_exclusiva(minima, maxima, veiculo) ==
  /\ minima <= veiculo[Coluna(ColunasVeiculo, "temperatura")]
  /\ veiculo[Coluna(ColunasVeiculo, "temperatura")] < maxima

temperatura_ok(minima, maxima, veiculo) ==
  /\ minima <= veiculo[Coluna(ColunasVeiculo, "temperatura")]
  /\ veiculo[Coluna(ColunasVeiculo, "temperatura")] <= maxima

ventilacao_ok(ventilacao_produto, veiculo) ==
  \/ ventilacao_produto = "SIM" /\ veiculo[Coluna(ColunasVeiculo, "ventilacao")] = "SIM"
  \/ ventilacao_produto = "NAO" /\ veiculo[Coluna(ColunasVeiculo, "ventilacao")] = "NAO"

protecao_solar_ok(protecao_solar_produto, veiculo) ==
  \/ /\ protecao_solar_produto = "SIM"
     /\ veiculo[Coluna(ColunasVeiculo, "protecao_solar")] = "SIM"
  \/ /\ protecao_solar_produto = "NAO"
     /\ veiculo[Coluna(ColunasVeiculo, "protecao_solar")] = "NAO"

\* The test of the matching loop for one vehicle, the product's values
\* read from the frame by the entered id.
CondicoesAtendidas(linhas, id, veiculo) ==
  /\ capacidade_ok(loc(linhas, ColunasProduto, id, "quantidade"), veiculo)
  /\ temperatura_ok(loc(linhas, ColunasProduto, id, "temperatura_minima"),
                    loc(linhas, ColunasProduto, id, "temperatura_maxima"), veiculo)
  /\ ventilacao_ok(loc(linhas, ColunasProduto, id, "ventilacao"), veiculo)
  /\ protecao_solar_ok(loc(linhas, ColunasProduto, id, "protecao_solar"), veiculo)

\* The identifier test of the product prompts.
IdValido(linha, linhas) == isdigit(linha) /\ int(linha) \in Indice(linhas)

\* consultar_veiculos(), then `if veiculos is None`.
C_Veiculos ==
  /\ pc = "c_veiculos"
  /\ \/ Excecao("DatabaseError")
     \/ /\ \E lista \in fetchall(tabela_veiculos) :
               IF EhNone(lista)
                 THEN /\ saida' = "nao_ha_veiculos_para_comparacao"
                      /\ retorno' = "None"
                      /\ pc' = "enter"
                      /\ UNCHANGED veiculos
                 ELSE /\ veiculos' = lista
                      /\ pc' = "c_produtos"
                      /\ UNCHANGED <<saida, retorno>>
        /\ id_produto' = <<>>
        /\ UNCHANGED <<conn, causa, escolha, tabelas, formulario, produtos, iter, idx,
                       exportacao>>

\* produtos = listar_produtos(), then `if produtos is None`.
C_Produtos ==
  /\ pc = "c_produtos"
  /\ \/ Excecao("DatabaseError")
     \/ /\ \E lista \in fetchall(tabela_produtos) :
               IF EhNone(listar_produtos(lista))
                 THEN /\ saida' = "nao_ha_produtos"
                      /\ retorno' = "None"
                      /\ pc' = "enter"
                      /\ UNCHANGED produtos
                 ELSE /\ produtos' = listar_produtos(lista)
                      /\ saida' = "produtos_listados"
                      /\ pc' = "c_id"
                      /\ UNCHANGED retorno
        /\ UNCHANGED <<conn, causa, escolha, tabelas, formulario, veiculos, id_produto,
                       iter, idx, exportacao>>

\* The else branch absorbed into "no compatible vehicle".
NaoEncontrado_absorvido ==
  [pc |-> "enter", saida |-> "nenhum_veiculo_atende", retorno |-> "False"]

\* What the else branch of the identifier test does: clear the screen,
\* print, and `return comparar_veiculo()`, which starts over with new locals.
NaoEncontrado == [pc |-> "c_veiculos", saida |-> "produto_nao_encontrado", retorno |-> ""]

\* id_produto = input(...), then the identifier test.
C_Id ==
  /\ pc = "c_id"
  /\ \E linha \in IdInputs :
       /\ id_produto' = linha
       /\ IF IdValido(linha, produtos.itens)
            THEN /\ pc' = "c_loop"
                 /\ UNCHANGED <<saida, retorno, veiculos, produtos>>
            ELSE /\ pc' = NaoEncontrado.pc
                 /\ saida' = NaoEncontrado.saida
                 /\ retorno' = NaoEncontrado.retorno
                 /\ veiculos' = None
                 /\ produtos' = None
  /\ UNCHANGED <<conn, causa, escolha, tabelas, formulario, iter, idx, exportacao>>

\* One pass of `for idx, veiculo in veiculo_df.iterrows()`: the next vehicle
\* is tested and, when all four conditions hold, printed and True returned.
C_Loop ==
  /\ pc = "c_loop"
  /\ iter < Len(iterrows(veiculos.itens))
  /\ LET veiculo == iterrows(veiculos.itens)[iter + 1]
     IN /\ iter' = iter + 1
        /\ IF CondicoesAtendidas(produtos.itens, int(id_produto), veiculo)
             THEN /\ idx' = veiculo[1]
                  /\ saida' = "veiculo_disponivel"
                  /\ retorno' = "True"
                  /\ pc' = "enter"
             ELSE UNCHANGED <<idx, saida, retorno, pc>>
  /\ UNCHANGED <<conn, causa, escolha, tabelas, formulario, veiculos, produtos,
                 id_produto, exportacao>>

\* The loop ran out of vehicles: the error is printed.
C_Nenhum ==
  /\ pc = "c_loop"
  /\ iter = Len(iterrows(veiculos.itens))
  /\ saida' = "nenhum_veiculo_atende"
  /\ pc' = "c_listar_veiculos"
  /\ UNCHANGED <<conn, causa, escolha, tabelas, formulario, consulta, exportacao>>

\* listar_veiculos() after the error, then `return False`.
C_ListarVeiculos ==
  /\ pc = "c_listar_veiculos"
  /\ \/ Excecao("DatabaseError")
     \/ /\ \E lista \in fetchall(tabela_veiculos) :
               saida' = IF EhNone(listar_veiculos(lista))
                          THEN "nao_ha_veiculos" ELSE "veiculos_listados"
        /\ retorno' = "False"
        /\ pc' = "enter"
        /\ UNCHANGED <<conn, causa, escolha, tabelas, formulario, veiculos, produtos,
                       id_produto, iter, idx, exportacao>>

\* ------------------------------------------------------------- export
\* Python types of the values of a fetched row, column by column.
TiposProduto == <<"int", "str", "int", "str", "str", "float", "float", "str", "str">>

TiposVeiculo == <<"int", "int", "float", "str", "str">>

\* dados_produto with the two temperature columns taken from each other.
dados_produto_trocado(produto_escolhido) ==
  << <<"id_produto", "int", produto_escolhido[1]>>,
     <<"produto", "str", produto_escolhido[2]>>,
     <<"quantidade", "int", produto_escolhido[3]>>,
     <<"origem", "str", produto_escolhido[4]>>,
     <<"destino", "str", produto_escolhido[5]>>,
     <<"temperatura_minima", "float", produto_escolhido[7]>>,
     <<"temperatura_maxima", "float", produto_escolhido[6]>>,
     <<"ventilacao", "str", produto_escolhido[8]>>,
     <<"protecao_solar", "str", produto_escolhido[9]>> >>

\* The dictionary salvar_dados_produtos_json builds from the chosen row:
\* key, type and value, in insertion order.
dados_produto(produto_escolhido) ==
  << <<"id_produto", TiposProduto[1], produto_escolhido[1]>>,
     <<"produto", TiposProduto[2], produto_escolhido[2]>>,
     <<"quantidade", TiposProduto[3], produto_escolhido[3]>>,
     <<"origem", TiposProduto[4], produto_escolhido[4]>>,
     <<"destino", TiposProduto[5], produto_escolhido[5]>>,
     <<"temperatura_minima", TiposProduto[6], produto_escolhido[6]>>,
     <<"temperatura_maxima", TiposProduto[7], produto_escolhido[7]>>,
     <<"ventilacao", TiposProduto[8], produto_escolhido[8]>>,
     <<"protecao_solar", TiposProduto[9], produto_escolhido[9]>> >>

\* The dictionary salvar_veiculo_json builds: the id is the integer typed.
dados_veiculo(id, veiculo_escolhido) ==
  << <<"id_veiculo", "int", id>>,
     <<"capacidade", TiposVeiculo[2], veiculo_escolhido[2]>>,
     <<"temperatura", TiposVeiculo[3], veiculo_escolhido[3]>>,
     <<"ventilacao", TiposVeiculo[4], veiculo_escolhido[4]>>,
     <<"protecao_solar", TiposVeiculo[5], veiculo_escolhido[5]>> >>

\* json.dump of a dictionary: one member per key, in order; a str becomes a
\* JSON string, an int or a float a JSON number.
json_dump(dados) ==
  [i \in 1..Len(dados) |->
     [nome |-> dados[i][1],
      valor |-> IF dados[i][2] = "str"
                  THEN [json |-> "string", texto |-> dados[i][3]]
                  ELSE [json |-> "number", texto |-> ToString(dados[i][3])]]]

\* The file names the two exports open.
ArquivoProduto(dados) == "produto_" \o dados[2][3] \o ".json"

ArquivoVeiculo(dados) == "veiculo_" \o ToString(dados[1][3]) \o ".json"

\* [p for p in produtos if p[0] == int(id_produto)][0]
Escolhido(linhas, id) ==
  linhas[CHOOSE i \in 1..Len(linhas) :
           /\ linhas[i][1] = id
           /\ \A j \in 1..(i - 1) : linhas[j][1] # id]

\* opcao_seis(): a line that is no integer is caught as ValueError; 1 and 2
\* run an export, any other integer does nothing.
OpcaoSeis ==
  /\ pc = "opcao_seis"
  /\ \E linha \in OpcaoSeisInputs :
       IF ~int_ok(linha)
         THEN saida' = "escolha_invalida" /\ pc' = "enter"
         ELSE /\ pc' = CASE int(linha) = 1 -> "s_produtos"
                         [] int(linha) = 2 -> "s_veiculos"
                         [] OTHER -> "enter"
              /\ saida' = ""
  /\ UNCHANGED <<conn, causa, escolha, tabelas, formulario, consulta, exportacao>>

\* salvar_dados_produtos_json: produtos = listar_produtos(); `if produtos:`.
S_Produtos ==
  /\ pc = "s_produtos"
  /\ \/ Excecao("DatabaseError")
     \/ /\ \E lista \in fetchall(tabela_produtos) :
               IF Verdadeiro(listar_produtos(lista))
                 THEN /\ produtos' = listar_produtos(lista)
                      /\ saida' = "produtos_listados"
                      /\ pc' = "s_id_produto"
                 ELSE /\ saida' = "nao_ha_produtos_para_salvar"
                      /\ pc' = "enter"
                      /\ UNCHANGED produtos
        /\ UNCHANGED <<conn, causa, escolha, tabelas, formulario, veiculos, id_produto,
                       iter, idx, retorno, exportacao>>

\* The identifier prompt of the product export and the write of the file.
S_IdProduto ==
  /\ pc = "s_id_produto"
  /\ \E linha \in IdInputs :
       /\ id_produto' = linha
       /\ IF isdigit(linha) /\ int(linha) \in Indice(produtos.itens)
            THEN LET dados == dados_produto(Escolhido(produtos.itens, int(linha)))
                 IN /\ arquivo' = ArquivoProduto(dados)
                    /\ json_file' = json_dump(dados)
                    /\ saida' = "produto_salvo"
            ELSE /\ saida' = "id_do_produto_invalido"
                 /\ UNCHANGED exportacao
  /\ pc' = "enter"
  /\ UNCHANGED <<conn, causa, escolha, tabelas, formulario, veiculos, produtos, iter,
                 idx, retorno>>

\* salvar_veiculo_json: veiculos = listar_veiculos(); not None and not empty.
S_Veiculos ==
  /\ pc = "s_veiculos"
  /\ \/ Excecao("DatabaseError")
     \/ /\ \E lista \in fetchall(tabela_veiculos) :
               IF ~EhNone(listar_veiculos(lista)) /\ Len(listar_veiculos(lista).itens) > 0
                 THEN /\ veiculos' = listar_veiculos(lista)
                      /\ saida' = "veiculos_listados"
                      /\ pc' = "s_id_veiculo"
                 ELSE /\ saida' = "nao_ha_veiculos_para_salvar"
                      /\ pc' = "enter"
                      /\ UNCHANGED veiculos
        /\ UNCHANGED <<conn, causa, escolha, tabelas, formulario, produtos, id_produto,
                       iter, idx, retorno, exportacao>>

\* The identifier prompt of the vehicle export and the write of the file.
S_IdVeiculo ==
  /\ pc = "s_id_veiculo"
  /\ \E linha \in IdInputs :
       /\ id_produto' = linha
       /\ IF isdigit(linha) /\ int(linha) \in Indice(veiculos.itens)
            THEN LET dados == dados_veiculo(int(linha),
                                            Escolhido(veiculos.itens, int(linha)))
                 IN /\ arquivo' = ArquivoVeiculo(dados)
                    /\ json_file' = json_dump(dados)
                    /\ saida' = "veiculo_salvo"
            ELSE /\ saida' = "id_do_veiculo_invalido"
                 /\ UNCHANGED exportacao
  /\ pc' = "enter"
  /\ UNCHANGED <<conn, causa, escolha, tabelas, formulario, veiculos, produtos, iter,
                 idx, retorno>>

\* ------------------------------------------------------- specification
Next ==
  \/ Conectar
  \/ Menu
  \/ PressioneEnter
  \/ Sair
  \/ P_Produto
  \/ P_Origem
  \/ P_Destino
  \/ P_Quantidade
  \/ P_TemperaturaMinima
  \/ P_TemperaturaMaxima
  \/ P_Ventilacao
  \/ P_ProtecaoSolar
  \/ P_Insert
  \/ V_Capacidade
  \/ V_Temperatura
  \/ V_Ventilacao
  \/ V_ProtecaoSolar
  \/ V_Insert
  \/ ListarProdutos
  \/ ListarVeiculos
  \/ C_Veiculos
  \/ C_Produtos
  \/ C_Id
  \/ C_Loop
  \/ C_Nenhum
  \/ C_ListarVeiculos
  \/ OpcaoSeis
  \/ S_Produtos
  \/ S_IdProduto
  \/ S_Veiculos
  \/ S_IdVeiculo

Spec == Init /\ [][Next]_vars

\* =============================================================== claims
\* The product record the store holds under the identifier typed.
Registro(id) == tabela_produtos[CHOOSE i \in 1..Len(tabela_produtos) : tabela_produtos[i][1] = id]

\* The four conditions of the compatibility rule, for a product record P
\* and a vehicle record v.
Compativel(P, v) ==
  /\ v[2] >= P[3]
  /\ P[6] <= v[3] /\ v[3] <= P[7]
  /\ v[4] = P[8]
  /\ v[5] = P[9]

\* Positions, in the order the store returned the vehicles, of the vehicles
\* compatible with P.
Compativeis(P) == {i \in 1..Len(veiculos.itens) : Compativel(P, veiculos.itens[i])}

\* comparar_veiculo has returned True or False for a selected product.
Comparado == pc = "enter" /\ escolha = 5 /\ retorno \in {"True", "False"}

\* C1: the compatibility check reports a vehicle only if that vehicle has
\* capacity >= quantity, a temperature within the product's inclusive range
\* and the product's ventilation and sun protection; it reports "no match"
\* (returns False) exactly when no fetched vehicle satisfies all four.
C1_MatcherSoundAndComplete ==
  /\ Comparado =>
       /\ retorno = "True" =>
            \E i \in Compativeis(Registro(int(id_produto))) : veiculos.itens[i][1] = idx
       /\ retorno = "False" <=> Compativeis(Registro(int(id_produto))) = {}
  /\ (escolha = 5 /\ saida = "nenhum_veiculo_atende") =>
       Compativeis(Registro(int(id_produto))) = {}
  /\ (escolha = 5 /\ saida = "veiculo_disponivel") =>
       \E i \in Compativeis(Registro(int(id_produto))) : veiculos.itens[i][1] = idx

\* A vehicle whose temperature is exactly the product's maximum is reported
\* while another fetched vehicle is not compatible.
C1_Witness ==
  /\ Comparado /\ retorno = "True"
  /\ Len(veiculos.itens) = 2
  /\ Cardinality(Compativeis(Registro(int(id_produto)))) = 1
  /\ \E i \in 1..2 : /\ veiculos.itens[i][1] = idx
                     /\ veiculos.itens[i][3] = Registro(int(id_produto))[7]

\* C2: the vehicle reported is the first compatible one in the order the
\* store returned the vehicles, and the loop examined no vehicle after it.
C2_FirstInStoreOrder ==
  (Comparado /\ retorno = "True") =>
    LET primeiro == CHOOSE i \in Compativeis(Registro(int(id_produto))) :
                      \A j \in Compativeis(Registro(int(id_produto))) : i <= j
    IN /\ Compativeis(Registro(int(id_produto))) # {}
       /\ veiculos.itens[primeiro][1] = idx
       /\ iter = primeiro

\* Two compatible vehicles were fetched with the higher id first, and the
\* one reported is that first one.
C2_Witness ==
  /\ Comparado /\ retorno = "True"
  /\ Cardinality(Compativeis(Registro(int(id_produto)))) = 2
  /\ veiculos.itens[1][1] = 2
  /\ idx = 2

\* The line typed names a product of the listing on screen.
Listado(linha) ==
  /\ isdigit(linha)
  /\ \E i \in 1..Len(produtos.itens) : produtos.itens[i][1] = int(linha)

JsonIgual(membro, coluna, registro) ==
  /\ membro.nome = ColunasProduto[coluna]
  /\ membro.valor = IF coluna \in {2, 4, 5, 8, 9}
                      THEN [json |-> "string", texto |-> registro[coluna]]
                      ELSE [json |-> "number", texto |-> ToString(registro[coluna])]

ProdutoExportado == pc = "enter" /\ escolha = 6 /\ saida = "produto_salvo"

C7_Original ==
  ProdutoExportado =>
    /\ arquivo = "product_" \o Registro(int(id_produto))[2] \o ".json"
    /\ Len(json_file) = 9
    /\ \A c \in 1..9 : JsonIgual(json_file[c], c, Registro(int(id_produto)))

\* C7 amended: every file the product export writes is named
\* produto_<name>.json for the stored record of the id typed, and its JSON
\* object has exactly that record's nine fields with equal values.
C7_ExportRoundTrip ==
  ProdutoExportado =>
    /\ arquivo = "produto_" \o Registro(int(id_produto))[2] \o ".json"
    /\ Len(json_file) = 9
    /\ \A c \in 1..9 : JsonIgual(json_file[c], c, Registro(int(id_produto)))

C7_Witness == ProdutoExportado /\ arquivo # "" /\ Len(tabela_produtos) > 0

\* C9: every product persisted has a non-empty name, origin and destination
\* and a quantity >= 1; a row is added only by the insert that follows a
\* complete form; a rejected line restarts the form without insert or exit.
ProdutoValido(P) == P[2] # "" /\ P[4] # "" /\ P[5] # "" /\ P[3] >= 1

FormularioProdutoPcs ==
  {"p_produto", "p_origem", "p_destino", "p_quantidade", "p_temperatura_minima",
   "p_temperatura_maxima", "p_ventilacao", "p_protecao_solar"}

C9_ProductRegistrationValid ==
  [][/\ \A i \in 1..Len(tabela_produtos') : ProdutoValido(tabela_produtos'[i])
     /\ tabela_produtos' # tabela_produtos =>
          /\ pc = "p_insert"
          /\ Len(tabela_produtos') = Len(tabela_produtos) + 1
     /\ pc' = "p_insert" =>
          produto' # "" /\ origem' # "" /\ destino' # "" /\ quantidade' >= 1
     /\ pc \in FormularioProdutoPcs =>
          /\ pc' \in FormularioProdutoPcs \cup {"p_insert"}
          /\ tabela_produtos' = tabela_produtos]_vars

C9_Witness ==
  /\ pc = "enter" /\ escolha = 1 /\ saida = "gravados"
  /\ Len(tabela_produtos) > 0

\* C3: with no vehicle registered the compatibility check reports "nothing
\* to compare" and returns before listing products, prompting or matching,
\* and never reports "no compatible vehicle".
C3_NothingToCompare ==
  (escolha = 5 /\ tabela_veiculos = <<>>) =>
    /\ pc \notin {"c_produtos", "c_id", "c_loop", "c_listar_veiculos"}
    /\ saida # "nenhum_veiculo_atende"
    /\ retorno # "False"

\* C5: a store error during any menu action is reported and the program
\* goes on; the process does not end because of it.
C5_StoreErrorContinues == ~(pc = "fim" /\ causa = "DatabaseError")

\* C6: a connection that was opened is closed by the time the process ends.
C6_ClosedAtExit == pc = "fim" => conn # "aberta"

\* C8: every vehicle persisted has a capacity >= 1.
C8_CapacityPositive ==
  \A i \in 1..Len(tabela_veiculos) : tabela_veiculos[i][2] >= 1

\* C10: the dispatcher stops only through the exit action; every other
\* action goes back to the menu.
C10_StopsOnlyByExit ==
  [][(pc # "fim" /\ pc # "inicio" /\ pc' = "fim") => pc = "sair"]_vars

====
